---- MODULE Spec2Model ----
(***************************************************************************)
(* The instance registry of levdwire (packages/container/src/container.ts) *)
(* and the component lifecycle contract it drives                          *)
(* (packages/components/src/component/component.ts).                       *)
(*                                                                         *)
(* The registry is a JavaScript object of objects:                         *)
(*   _instances[component][id] = instance.                                 *)
(* It is modelled as a function whose DOMAIN is the set of registered      *)
(* component kinds, each value a function whose DOMAIN is the set of ids   *)
(* stored under that kind.  The truthiness tests of the source             *)
(* (`!this._instances[component]`, `!this._instances[component][id]`) are  *)
(* tests of own keys: component and id names range over strings that are   *)
(* not member names of Object.prototype.                                   *)
(*                                                                         *)
(* Every public method is one action that runs the whole method, with the  *)
(* calls it makes into the stored instance and the calls the instance      *)
(* makes back into the registry.                                           *)
(*                                                                         *)
(* The specifications share the state:                                     *)
(*   Spec           - the public methods of the registry;                  *)
(*   SpecComponent  - components constructed into and leaving the          *)
(*                    registry;                                            *)
(*   SpecTeardown   - push and teardown on the contexts of useTeardown     *)
(*                    (source/container/interface.ts);                     *)
(*   SpecReentrant  - the same with a callback that pushes while it runs;  *)
(*   SpecListeners  - attach, attachDelegate, their removers, push and     *)
(*                    teardown, and clicks in the document;                *)
(*   SpecDelegate   - attachDelegate with a selector and a name, and the   *)
(*                    events that reach its listener;                      *)
(*   SpecTransition - onTransition (unnamed/part_001), the teardown it     *)
(*                    returns and transition events.                       *)
(***************************************************************************)
EXTENDS Naturals, Sequences, FiniteSets, TLC

VARIABLES
    _instances,  \* Container._instances
    last,        \* the most recent call on the container and what it did:
                 \* its arguments, its result, the registry before it, the
                 \* diagnostics it wrote and the instance methods it invoked
    registered,  \* per kind, how many register calls have returned true
    registry,    \* per useTeardown() context, its Map `registry`: the
                 \* entries in insertion order
    listeners,   \* the event listeners created by attach and attachDelegate,
                 \* in the order of their addEventListener calls, each with
                 \* whether it is still in its target's listener list
    tlast        \* the most recent call on a teardown context and what it
                 \* did: its arguments, its result, the registries before
                 \* it and the callbacks it invoked, in order

vars == <<_instances, last, registered, registry, listeners, tlast>>

(***************************************************************************)
(* The values the calls are made with.                                     *)
(***************************************************************************)
\* Component kinds, instance ids and instances the calls are made with.
Kinds == {"Toast", "Slider"}
Ids == {"", "toast1", "toast2"}
Insts == {"instance1", "instance2"}

\* A parameter that was not passed.
Undefined == "undefined"

\* What an instance's lifecycle methods do when the registry invokes them:
\*   "mock"   - destroy, remove and destroyAndRemove are spies that return
\*              (createMockInstance of container.test.ts);
\*   "widget" - a Component subclass: destroy() releases its resources and
\*              returns, remove() delegates to the registry's remove for the
\*              instance's own (component, _id), destroyAndRemove() is the
\*              default of Component;
\*   "faulty" - a Component subclass whose destroy() throws.
Impls == {"mock", "widget", "faulty"}

\* The outcome of a call that ended with an exception.
Threw == "throw"

\* JavaScript truthiness of a string parameter.
Truthy(v) == v # Undefined /\ v # ""

(***************************************************************************)
(* Utility                                                                 *)
(***************************************************************************)
\* Utility.generate('id') is Math.random().toString(36).substring(2, 9): a
\* string of one to seven base-36 digits (nothing keeps it from being an id
\* already in use).  The empty result of Math.random() returning exactly 0 is
\* left out.
GenIds == Ids \ {""}

Warning(w) == [w EXCEPT !.con.warn = @ + 1]

Error(w) == [w EXCEPT !.con.error = @ + 1]

(***************************************************************************)
(* A world w is [reg, con, tr]: the registry, the console.warn and         *)
(* console.error calls of the running call and the trace of what it has    *)
(* done so far (instance methods invoked, entries stored and deleted).     *)
(* Every method maps a world to [w, ret].                                  *)
(***************************************************************************)
Invoke(w, inst, method) == [w EXCEPT !.tr = Append(@, <<inst, method>>)]

Store(w, component, id, inst) ==
    [w EXCEPT !.reg[component] =
                  [x \in (DOMAIN @) \cup {id} |-> IF x = id THEN inst ELSE @[x]],
              !.tr = Append(@, <<inst, "store">>)]

\* Delete as it would be if ids were one flat namespace: the id is dropped
\* under every kind.
Delete_all_kinds(w, component, id) ==
    [w EXCEPT !.reg = [k \in DOMAIN @ |-> [x \in (DOMAIN @[k]) \ {id} |-> @[k][x]]],
              !.tr = Append(@, <<w.reg[component][id], "delete">>)]

Delete(w, component, id) ==
    [w EXCEPT !.reg[component] = [x \in (DOMAIN @) \ {id} |-> @[x]],
              !.tr = Append(@, <<w.reg[component][id], "delete">>)]

\* this._instances[component] is truthy
HasComponent(reg, component) == component \in DOMAIN reg

\* this._instances[component][id] is truthy (component is registered)
HasInstance(reg, component, id) == id \in DOMAIN reg[component]

_checkComponent(w, component) ==
    IF ~HasComponent(w.reg, component)
    THEN [w |-> Warning(w), ret |-> FALSE]
    ELSE [w |-> w, ret |-> TRUE]

\* _checkInstance as it would be if it reported through Utility.warning.
_checkInstance_warning(w, component, id) ==
    IF ~HasInstance(w.reg, component, id)
    THEN [w |-> Warning(w), ret |-> FALSE]
    ELSE [w |-> w, ret |-> TRUE]

_checkInstance(w, component, id) ==
    IF ~HasInstance(w.reg, component, id)
    THEN [w |-> Error(w), ret |-> FALSE]
    ELSE [w |-> w, ret |-> TRUE]

(***************************************************************************)
(* Container: the methods that call nothing outside the registry.          *)
(***************************************************************************)
\* register as it would be if the repeated call started the kind afresh.
register_resetting(w, component) ==
    [w |-> [(IF HasComponent(w.reg, component) THEN Warning(w) ELSE w)
               EXCEPT !.reg = [k \in (DOMAIN @) \cup {component} |->
                                  IF k = component THEN [x \in {} |-> x]
                                                   ELSE @[k]]],
     ret |-> IF HasComponent(w.reg, component) THEN "false" ELSE "true"]

register(w, component) ==
    IF HasComponent(w.reg, component)
    THEN [w |-> Warning(w), ret |-> "false"]
    ELSE [w |-> [w EXCEPT !.reg = [k \in (DOMAIN @) \cup {component} |->
                                      IF k = component THEN [x \in {} |-> x]
                                                       ELSE @[k]]],
          ret |-> "true"]

get(w, component, id) ==
    LET k == _checkComponent(w, component) IN
    IF ~k.ret THEN [w |-> k.w, ret |-> "false"]
    ELSE LET n == _checkInstance(k.w, component, id) IN
         IF ~n.ret THEN [w |-> n.w, ret |-> "false"]
         ELSE [w |-> n.w, ret |-> n.w.reg[component][id]]

\* getMany as it would be if an empty mapping counted as missing.
getMany_empty_is_false(w, component) ==
    LET k == _checkComponent(w, component) IN
    IF ~k.ret THEN [w |-> k.w, ret |-> "false"]
    ELSE IF DOMAIN k.w.reg[component] = {} THEN [w |-> k.w, ret |-> "false"]
    ELSE [w |-> k.w, ret |-> "object", obj |-> k.w.reg[component]]

\* The mapping getMany returns is result field obj (ret is "object" then).
getMany(w, component) ==
    LET k == _checkComponent(w, component) IN
    IF ~k.ret THEN [w |-> k.w, ret |-> "false"]
    ELSE [w |-> k.w, ret |-> "object", obj |-> k.w.reg[component]]

\* set as it would be without the _checkInstance guard: it creates the entry.
set_creating(w, component, inst, id) ==
    LET k == _checkComponent(w, component) IN
    IF ~k.ret THEN [w |-> k.w, ret |-> "false"]
    ELSE [w |-> Store(k.w, component, id, inst), ret |-> "true"]

\* set as it would be if it retired the displaced instance the way add with
\* override does.
set_retiring(w, component, inst, id) ==
    LET k == _checkComponent(w, component) IN
    IF ~k.ret THEN [w |-> k.w, ret |-> "false"]
    ELSE LET n == _checkInstance(k.w, component, id) IN
         IF ~n.ret THEN [w |-> n.w, ret |-> "false"]
         ELSE [w |-> Store(Invoke(n.w, n.w.reg[component][id], "destroyAndRemove"),
                           component, id, inst),
               ret |-> "true"]

set(w, component, inst, id) ==
    LET k == _checkComponent(w, component) IN
    IF ~k.ret THEN [w |-> k.w, ret |-> "false"]
    ELSE LET n == _checkInstance(k.w, component, id) IN
         IF ~n.ret THEN [w |-> n.w, ret |-> "false"]
         ELSE [w |-> Store(n.w, component, id, inst), ret |-> "true"]

\* has as it would be if it tested the kind alone.
has_kind_only(w, component, id) ==
    IF ~HasComponent(w.reg, component) THEN [w |-> w, ret |-> "false"]
    ELSE [w |-> w, ret |-> "true"]

\* has as it would be if written with the logging guards of its siblings.
has_logging(w, component, id) ==
    LET k == _checkComponent(w, component) IN
    IF ~k.ret THEN [w |-> k.w, ret |-> "false"]
    ELSE LET n == _checkInstance(k.w, component, id) IN
         IF ~n.ret THEN [w |-> n.w, ret |-> "false"]
         ELSE [w |-> n.w, ret |-> "true"]

has(w, component, id) ==
    IF ~HasComponent(w.reg, component) THEN [w |-> w, ret |-> "false"]
    ELSE IF ~HasInstance(w.reg, component, id) THEN [w |-> w, ret |-> "false"]
    ELSE [w |-> w, ret |-> "true"]

\* remove as it would be if it dropped a kind left without instances.
remove_pruning(w, component, id) ==
    LET k == _checkComponent(w, component) IN
    IF ~k.ret THEN [w |-> k.w, ret |-> "false"]
    ELSE LET n == _checkInstance(k.w, component, id) IN
         IF ~n.ret THEN [w |-> n.w, ret |-> "false"]
         ELSE LET d == Delete(n.w, component, id) IN
              [w |-> IF DOMAIN d.reg[component] = {}
                     THEN [d EXCEPT !.reg = [c \in (DOMAIN @) \ {component}
                                                |-> @[c]]]
                     ELSE d,
               ret |-> "true"]

\* remove as it would be if the delete statement were missing.
remove_without_delete(w, component, id) ==
    LET k == _checkComponent(w, component) IN
    IF ~k.ret THEN [w |-> k.w, ret |-> "false"]
    ELSE LET n == _checkInstance(k.w, component, id) IN
         IF ~n.ret THEN [w |-> n.w, ret |-> "false"]
         ELSE [w |-> n.w, ret |-> "true"]

\* remove as it would be if it released the instance before deleting it.
remove_destroying(w, component, id) ==
    LET k == _checkComponent(w, component) IN
    IF ~k.ret THEN [w |-> k.w, ret |-> "false"]
    ELSE LET n == _checkInstance(k.w, component, id) IN
         IF ~n.ret THEN [w |-> n.w, ret |-> "false"]
         ELSE [w |-> Delete(Invoke(n.w, n.w.reg[component][id], "destroy"),
                            component, id),
               ret |-> "true"]

remove(w, component, id) ==
    LET k == _checkComponent(w, component) IN
    IF ~k.ret THEN [w |-> k.w, ret |-> "false"]
    ELSE LET n == _checkInstance(k.w, component, id) IN
         IF ~n.ret THEN [w |-> n.w, ret |-> "false"]
         ELSE [w |-> Delete(n.w, component, id), ret |-> "true"]

(***************************************************************************)
(* The lifecycle methods of an instance stored at (component, id).         *)
(***************************************************************************)
InstDestroy(w, inst, impl) ==
    LET v == Invoke(w, inst, "destroy") IN
    IF impl = "faulty" THEN [w |-> v, ret |-> Threw]
    ELSE [w |-> v, ret |-> Undefined]

InstRemove(w, inst, impl, component, id) ==
    LET v == Invoke(w, inst, "remove") IN
    IF impl = "widget" THEN remove(v, component, id)
    ELSE [w |-> v, ret |-> Undefined]

\* Component.destroyAndRemove: this.destroy(), then this.remove().
ComponentDestroyAndRemove(w, inst, impl, component, id) ==
    LET d == InstDestroy(w, inst, impl) IN
    IF d.ret = Threw THEN d
    ELSE LET r == InstRemove(d.w, inst, impl, component, id) IN
         [w |-> r.w, ret |-> IF r.ret = Threw THEN Threw ELSE Undefined]

InstDestroyAndRemove(w, inst, impl, component, id) ==
    LET v == Invoke(w, inst, "destroyAndRemove") IN
    IF impl = "mock" THEN [w |-> v, ret |-> Undefined]
    ELSE ComponentDestroyAndRemove(v, inst, impl, component, id)

(***************************************************************************)
(* Container: the methods that call into the stored instance.              *)
(***************************************************************************)
\* The key add stores under: id ? id : Utility.generate('id').
Identifier(id, gen) == IF Truthy(id) THEN id ELSE gen

\* add as it would be if the assignment that stores the instance were missing.
add_without_store(w, component, inst, id, override, gen, impl) ==
    LET identifier == Identifier(id, gen) IN
    IF ~HasComponent(w.reg, component)
    THEN [w |-> Warning(w), ret |-> "false"]
    ELSE IF HasInstance(w.reg, component, identifier) /\ ~override
    THEN [w |-> Warning(w), ret |-> "false"]
    ELSE LET d == IF override /\ HasInstance(w.reg, component, identifier)
                  THEN InstDestroyAndRemove(w, w.reg[component][identifier],
                                            impl, component, identifier)
                  ELSE [w |-> w, ret |-> Undefined]
         IN IF d.ret = Threw THEN d ELSE [w |-> d.w, ret |-> "true"]

\* add as it would be without the duplicate check: it always overrides.
add_always_overriding(w, component, inst, id, override, gen, impl) ==
    LET identifier == Identifier(id, gen) IN
    IF ~HasComponent(w.reg, component)
    THEN [w |-> Warning(w), ret |-> "false"]
    ELSE LET d == IF HasInstance(w.reg, component, identifier)
                  THEN InstDestroyAndRemove(w, w.reg[component][identifier],
                                            impl, component, identifier)
                  ELSE [w |-> w, ret |-> Undefined]
         IN IF d.ret = Threw THEN d
            ELSE [w |-> Store(d.w, component, identifier, inst), ret |-> "true"]

\* add as it would be if it registered a missing kind itself.
add_registering(w, component, inst, id, override, gen, impl) ==
    LET identifier == Identifier(id, gen)
        v == IF HasComponent(w.reg, component) THEN w
             ELSE [w EXCEPT !.reg = [k \in (DOMAIN @) \cup {component} |->
                                        IF k = component THEN [x \in {} |-> x]
                                                         ELSE @[k]]]
    IN
    IF HasInstance(v.reg, component, identifier) /\ ~override
    THEN [w |-> Warning(v), ret |-> "false"]
    ELSE LET d == IF override /\ HasInstance(v.reg, component, identifier)
                  THEN InstDestroyAndRemove(v, v.reg[component][identifier],
                                            impl, component, identifier)
                  ELSE [w |-> v, ret |-> Undefined]
         IN IF d.ret = Threw THEN d
            ELSE [w |-> Store(d.w, component, identifier, inst), ret |-> "true"]

add(w, component, inst, id, override, gen, impl) ==
    LET identifier == Identifier(id, gen) IN
    IF ~HasComponent(w.reg, component)
    THEN [w |-> Warning(w), ret |-> "false"]
    ELSE IF HasInstance(w.reg, component, identifier) /\ ~override
    THEN [w |-> Warning(w), ret |-> "false"]
    ELSE LET d == IF override /\ HasInstance(w.reg, component, identifier)
                  THEN InstDestroyAndRemove(w, w.reg[component][identifier],
                                            impl, component, identifier)
                  ELSE [w |-> w, ret |-> Undefined]
         IN IF d.ret = Threw THEN d
            ELSE [w |-> Store(d.w, component, identifier, inst), ret |-> "true"]

\* destroy as it would be with the leniency of destroyAndRemove: a missing
\* instance is reported and the call still answers true.
destroy_lenient(w, component, id, impl) ==
    LET k == _checkComponent(w, component) IN
    IF ~k.ret THEN [w |-> k.w, ret |-> "false"]
    ELSE LET n == _checkInstance(k.w, component, id) IN
         IF ~n.ret THEN [w |-> n.w, ret |-> "true"]
         ELSE LET d == InstDestroy(n.w, n.w.reg[component][id], impl) IN
              IF d.ret = Threw THEN d ELSE [w |-> d.w, ret |-> "true"]

destroy(w, component, id, impl) ==
    LET k == _checkComponent(w, component) IN
    IF ~k.ret THEN [w |-> k.w, ret |-> "false"]
    ELSE LET n == _checkInstance(k.w, component, id) IN
         IF ~n.ret THEN [w |-> n.w, ret |-> "false"]
         ELSE LET d == InstDestroy(n.w, n.w.reg[component][id], impl) IN
              IF d.ret = Threw THEN d ELSE [w |-> d.w, ret |-> "true"]

destroyAndRemove(w, component, id, impl) ==
    LET d == destroy(w, component, id, impl) IN
    IF d.ret = Threw THEN d
    ELSE LET r == remove(d.w, component, id) IN
         [w |-> r.w, ret |-> "true"]

(***************************************************************************)
(* Component: construction.                                                *)
(***************************************************************************)
\* this._id = instanceOptions.id ? instanceOptions.id : element.id, where
\* instanceOptions.id is "" when no instance options are passed and
\* element.id is "" when the element has no id attribute.
ComponentId(id, elementId) == IF Truthy(id) THEN id ELSE elementId

\* new Component(component, element, options, instanceOptions): the
\* constructor ends with LevdwireContainer.add(component, this, this._id,
\* instanceOptions.override) and does not use what add returns.
NewComponent(w, component, inst, id, elementId, override, gen, impl) ==
    LET a == add(w, component, inst, ComponentId(id, elementId), override, gen, impl)
    IN [w |-> a.w, ret |-> IF a.ret = Threw THEN Threw ELSE "object"]

(***************************************************************************)
(* useTeardown (source/container/interface.ts): the teardown contexts.     *)
(*                                                                         *)
(* Each useTeardown() call owns one Map, `registry`.  A Map is its list of *)
(* entries in insertion order; Map.prototype.delete empties an entry in    *)
(* place and Map.prototype.set appends when the key has no entry, which is *)
(* what a running for-of over the Map observes.  Between calls no iterator *)
(* is alive and the emptied entries are dropped.                           *)
(*                                                                         *)
(* A teardown world w is [reg, inv, pushed, lst, fired]: the Maps of all    *)
(* contexts, the callbacks invoked so far by the running call, as          *)
(* <<context, key, callback>>, the callbacks registered so far by it,      *)
(* likewise, the event listeners, and the handlers run so far by the       *)
(* running call, as <<listener, handler, first argument or this>>.  The    *)
(* console.warn calls of development builds are not part of the state.     *)
(***************************************************************************)
\* The contexts, aliases and callbacks the calls are made with.
Contexts == {"t1", "t2"}
Aliases == {"", "a"}

\* Callbacks passed to push:
\*   "l1", ...    - the remover returned by attach or attachDelegate for
\*                  the listener of that id (see ListenerPool);
\*   "cb1", "cb2" - other removers: they release something and return;
\*   "bad"        - a callback that throws;
\*   "again"      - a callback that calls push("a", "cb2") on the context
\*                  that invoked it, unless it is already running.
Removers == {"cb1", "cb2", "bad"}
Callbacks == Removers \cup {"again"}

\* An entry of a Map that delete has emptied.
Empty == "empty"

\* Map.prototype.get
MapGet(m, key) ==
    IF \E i \in DOMAIN m : m[i].key = key
    THEN m[CHOOSE i \in DOMAIN m : m[i].key = key].value
    ELSE Undefined

\* Map.prototype.set as it would be if a key set again moved to the end.
MapSet_moving(m, key, value) ==
    Append(SelectSeq(m, LAMBDA e : e.key # key), [key |-> key, value |-> value])

\* Map.prototype.set: an existing key keeps its place.
MapSet(m, key, value) ==
    IF \E i \in DOMAIN m : m[i].key = key
    THEN [i \in DOMAIN m |-> IF m[i].key = key THEN [m[i] EXCEPT !.value = value]
                                               ELSE m[i]]
    ELSE Append(m, [key |-> key, value |-> value])

\* Map.prototype.delete
MapDelete(m, key) ==
    [i \in DOMAIN m |-> IF m[i].key = key THEN [key |-> Empty, value |-> Empty]
                                          ELSE m[i]]

\* The entries a Map holds once no iteration over it is running.
Entries(m) == SelectSeq(m, LAMBDA e : e.key # Empty)

(***************************************************************************)
(* The document the listeners are attached to, its events and the listener *)
(* lists of its nodes.                                                     *)
(*                                                                         *)
(*     body > list > item > leaf        body > aside                       *)
(*                                                                         *)
(* attach and attachDelegate wrap the handler in a new function per call,  *)
(* so a listener is known by that function: an id out of ListenerPool.     *)
(* The remover returned by the call is known by the same id.  Of the       *)
(* native listener options only `capture` is modelled (no `once`).         *)
(***************************************************************************)
Nodes == {"body", "list", "item", "leaf", "aside"}

\* Node.parentElement; the root has none.
Parent ==
    [n \in Nodes |-> CASE n = "leaf" -> "item"
                       [] n = "item" -> "list"
                       [] n = "list" -> "body"
                       [] n = "aside" -> "body"
                       [] OTHER -> Undefined]

\* A node and its ancestors, innermost first.
RECURSIVE Chain(_)
Chain(n) == IF n = Undefined THEN <<>> ELSE <<n>> \o Chain(Parent[n])

\* Node.contains (a node contains itself)
Contains(scope, n) == \E i \in DOMAIN Chain(n) : Chain(n)[i] = scope

\* Element.matches for the selectors used: ".item" selects item, "div"
\* selects body and item.
Selectors == {".item", "div"}
Matches(n, selector) ==
    \/ selector = ".item" /\ n = "item"
    \/ selector = "div" /\ n \in {"body", "item"}

\* Element.closest: the nearest of the node and its ancestors that matches,
\* null (Undefined here) when none does.
Closest(n, selector) ==
    LET chain == Chain(n)
        hits == {i \in DOMAIN chain : Matches(chain[i], selector)}
    IN IF hits = {} THEN Undefined
       ELSE chain[CHOOSE i \in hits : \A j \in hits : i <= j]

\* Event types.  The browser dispatches a TransitionEvent (with propertyName)
\* for the transition types, an AnimationEvent (with animationName) for the
\* animation types and events without such a name for the others.
TransitionTypes ==
    {"transitionstart", "transitionend", "transitionrun", "transitioncancel"}
AnimationTypes == {"animationend"}
\* The legacy type under which browsers also deliver the TransitionEvent of
\* transitionend to listeners registered for it.
LegacyTransitionTypes == {"webkitTransitionEnd"}
OtherTypes == {"click"}
\* event instanceof TransitionEvent, event instanceof AnimationEvent
IsTransitionEvent(event) ==
    event.type \in TransitionTypes \cup LegacyTransitionTypes
IsAnimationEvent(event) == event.type \in AnimationTypes
Names == {"opacity", "width"}

\* The ids of the wrapped listener functions, in the order they are created.
ListenerPool == <<"l1", "l2", "l3", "l4">>
ListenerIds == {ListenerPool[i] : i \in DOMAIN ListenerPool}

\* The listener with wrapped function `id`.
ListenerOf(lst, id) == lst[CHOOSE i \in DOMAIN lst : lst[i].id = id]

\* EventTarget.addEventListener(type, wrapped, options) on `scope`; l carries
\* what the wrapped function closes over.
AddEventListener(lst, l) == Append(lst, [l EXCEPT !.attached = TRUE])

\* removeEventListener as it would be if it went by the handler that the
\* listener wraps: every listener of that handler on the scope and type goes.
RemoveEventListener_by_handler(lst, scope, type, wrapped, capture) ==
    [i \in DOMAIN lst |->
        IF /\ lst[i].scope = scope /\ lst[i].type = type
           /\ lst[i].handler = ListenerOf(lst, wrapped).handler
        THEN [lst[i] EXCEPT !.attached = FALSE]
        ELSE lst[i]]

\* EventTarget.removeEventListener(type, wrapped, options) on `scope`: the
\* listener with that type, function and capture flag leaves the list.
RemoveEventListener(lst, scope, type, wrapped, capture) ==
    [i \in DOMAIN lst |->
        IF /\ lst[i].scope = scope /\ lst[i].type = type
           /\ lst[i].id = wrapped /\ lst[i].capture = capture
        THEN [lst[i] EXCEPT !.attached = FALSE]
        ELSE lst[i]]

\* The remover returned for listener `id`:
\* () => scope.removeEventListener(type, wrapped, options)
Remover(lst, id) ==
    LET l == ListenerOf(lst, id) IN
    RemoveEventListener(lst, l.scope, l.type, l.id, l.capture)

RECURSIVE InvokeCallback(_, _, _, _, _)
RECURSIVE push(_, _, _, _, _)
RECURSIVE TeardownLoop(_, _, _, _, _, _)

\* callback() for the callback found under `key` in context c; `running` are
\* the callbacks on the call stack.
InvokeCallback(w, c, key, callback, running) ==
    LET v == [w EXCEPT !.inv = Append(@, <<c, key, callback>>)] IN
    IF callback = "bad" THEN [w |-> v, ret |-> Threw]
    ELSE IF callback \in ListenerIds
    THEN [w |-> [v EXCEPT !.lst = Remover(@, callback)], ret |-> Undefined]
    ELSE IF callback = "again" /\ callback \notin running
    THEN [w |-> push(v, c, "a", "cb2", running \cup {callback}).w, ret |-> Undefined]
    ELSE [w |-> v, ret |-> Undefined]

\* push as it would be if it replaced the previous callback without
\* invoking it.
push_replacing(w, c, alias, callback, running) ==
    [w |-> [w EXCEPT !.reg[c] = MapSet(@, alias, callback),
                     !.pushed = Append(@, <<c, alias, callback>>)],
     ret |-> Undefined]

\* push as it would be if the contexts shared one Map.
push_shared(w, c, alias, callback, running) ==
    LET previousCallback == MapGet(w.reg[c], alias)
        v == IF previousCallback # Undefined
             THEN InvokeCallback(w, c, alias, previousCallback, running).w
             ELSE w
    IN [w |-> [v EXCEPT !.reg = [x \in DOMAIN @ |-> MapSet(@[x], alias, callback)],
                        !.pushed = Append(@, <<c, alias, callback>>)],
        ret |-> Undefined]

\* push as it would be without its try/catch: an exception of the previous
\* callback ends the call before registry.set.
push_unguarded(w, c, alias, callback, running) ==
    LET previousCallback == MapGet(w.reg[c], alias)
        r == IF previousCallback # Undefined
             THEN InvokeCallback(w, c, alias, previousCallback, running)
             ELSE [w |-> w, ret |-> Undefined]
    IN IF r.ret = Threw THEN r
       ELSE [w |-> [r.w EXCEPT !.reg[c] = MapSet(@, alias, callback),
                               !.pushed = Append(@, <<c, alias, callback>>)],
             ret |-> Undefined]

\* push(alias, callback) on context c.  An exception of the previous
\* callback is caught.
push(w, c, alias, callback, running) ==
    LET previousCallback == MapGet(w.reg[c], alias)
        v == IF previousCallback # Undefined
             THEN InvokeCallback(w, c, alias, previousCallback, running).w
             ELSE w
    IN [w |-> [v EXCEPT !.reg[c] = MapSet(@, alias, callback),
                        !.pushed = Append(@, <<c, alias, callback>>)],
        ret |-> Undefined]

\* The loop of teardown as it would be without its try/catch: the first
\* exception ends the call.
TeardownLoop_unguarded(w, c, alias, i, ran, running) ==
    IF i > Len(w.reg[c]) THEN [w |-> w, ran |-> ran]
    ELSE LET key == w.reg[c][i].key
             callback == w.reg[c][i].value
         IN IF key = Empty \/ (Truthy(alias) /\ key # alias)
            THEN TeardownLoop(w, c, alias, i + 1, ran, running)
            ELSE LET r == InvokeCallback(w, c, key, callback, running) IN
                 IF r.ret = Threw THEN [w |-> r.w, ran |-> ran]
                 ELSE TeardownLoop([r.w EXCEPT !.reg[c] = MapDelete(@, key)],
                                   c, alias, i + 1, TRUE, running)

\* The loop of teardown as it would be without registry.delete(key).
TeardownLoop_keeping(w, c, alias, i, ran, running) ==
    IF i > Len(w.reg[c]) THEN [w |-> w, ran |-> ran]
    ELSE LET key == w.reg[c][i].key
             callback == w.reg[c][i].value
         IN IF key = Empty \/ (Truthy(alias) /\ key # alias)
            THEN TeardownLoop(w, c, alias, i + 1, ran, running)
            ELSE TeardownLoop(InvokeCallback(w, c, key, callback, running).w,
                              c, alias, i + 1, TRUE, running)

\* The loop of teardown as it would be over a copy of the entries taken
\* when the call starts.
TeardownLoop_snapshot(w, c, alias, i, ran, running) ==
    IF i > Len(registry[c]) THEN [w |-> w, ran |-> ran]
    ELSE LET key == w.reg[c][i].key
             callback == w.reg[c][i].value
         IN IF key = Empty \/ (Truthy(alias) /\ key # alias)
            THEN TeardownLoop(w, c, alias, i + 1, ran, running)
            ELSE LET r == InvokeCallback(w, c, key, callback, running) IN
                 TeardownLoop([r.w EXCEPT !.reg[c] = MapDelete(@, key)],
                              c, alias, i + 1, TRUE, running)

\* for (const [key, callback] of registry) { ... } from the i-th entry on:
\* the iteration sees the entries appended and emptied while it runs.
TeardownLoop(w, c, alias, i, ran, running) ==
    IF i > Len(w.reg[c]) THEN [w |-> w, ran |-> ran]
    ELSE LET key == w.reg[c][i].key
             callback == w.reg[c][i].value
         IN IF key = Empty \/ (Truthy(alias) /\ key # alias)
            THEN TeardownLoop(w, c, alias, i + 1, ran, running)
            ELSE LET r == InvokeCallback(w, c, key, callback, running) IN
                 TeardownLoop([r.w EXCEPT !.reg[c] = MapDelete(@, key)],
                              c, alias, i + 1, TRUE, running)

\* teardown(alias?) on context c
teardown(w, c, alias, running) ==
    LET r == TeardownLoop(w, c, alias, 1, FALSE, running) IN
    [w |-> r.w, ret |-> IF r.ran THEN "true" ELSE "false"]

(***************************************************************************)
(* useTeardown: attach, attachDelegate and the listeners they create;      *)
(* the transition lifecycle helper built on them.                          *)
(***************************************************************************)
\* Handlers passed to attach and attachDelegate: "h1" and "h2" return,
\* "hbad" throws.
Handlers == {"h1", "h2", "hbad"}

\* attach as it would be if it registered its remover in the registry of
\* the widget's context, under the event type.
attach_registering(w, scope, type, handler, options) ==
    LET wrapped == ListenerPool[Len(w.lst) + 1] IN
    [w |-> [w EXCEPT !.lst = AddEventListener(@,
                [id |-> wrapped, via |-> "attach", scope |-> scope,
                 type |-> type, capture |-> options.capture,
                 handler |-> handler, delegate |-> Undefined,
                 name |-> Undefined, attached |-> TRUE]),
                     !.reg["t1"] = MapSet(@, type, wrapped)],
     ret |-> wrapped]

\* attach(scope, type, handler, options): the result is the remover.
attach(w, scope, type, handler, options) ==
    LET wrapped == ListenerPool[Len(w.lst) + 1] IN
    [w |-> [w EXCEPT !.lst = AddEventListener(@,
                [id |-> wrapped, via |-> "attach", scope |-> scope,
                 type |-> type, capture |-> options.capture,
                 handler |-> handler, delegate |-> Undefined,
                 name |-> Undefined, attached |-> TRUE])],
     ret |-> wrapped]

\* attachDelegate(scope, type, handler, options), options being
\* { delegate, name, ...nativeOptions }: the result is the remover.
attachDelegate(w, scope, type, handler, options) ==
    LET listener == ListenerPool[Len(w.lst) + 1] IN
    [w |-> [w EXCEPT !.lst = AddEventListener(@,
                [id |-> listener, via |-> "attachDelegate", scope |-> scope,
                 type |-> type, capture |-> options.capture,
                 handler |-> handler, delegate |-> options.delegate,
                 name |-> options.name, attached |-> TRUE])],
     ret |-> listener]

\* The handler of listener l runs with `first` as its first argument (as
\* `this` for attach).
RunHandler(w, l, first) ==
    [w |-> [w EXCEPT !.fired = Append(@, <<l.id, l.handler, first>>)],
     ret |-> IF l.handler = "hbad" THEN Threw ELSE Undefined]

\* `wrapped` of attach as it would be without its try/catch.
Wrapped_unguarded(w, l, event) == RunHandler(w, l, "event")

\* `wrapped` of attach: handler.call(scope, event) inside try/catch.  The
\* scope is the handler's `this` and the event object, written "event", is
\* its first argument.
Wrapped(w, l, event) ==
    [w |-> RunHandler(w, l, "event").w, ret |-> Undefined]

\* What `listener` of attachDelegate resolves the event to:
\* delegate ? target?.closest(delegate) : target
Resolved(l, event) ==
    IF Truthy(l.delegate) THEN Closest(event.target, l.delegate)
    ELSE event.target

\* The name filter of `listener`: the event is skipped.
SkippedByName(l, event) ==
    /\ Truthy(l.name)
    /\ \/ /\ l.type \in AnimationTypes          \* type.startsWith('animation')
          /\ IsAnimationEvent(event)
          /\ event.name # l.name
       \/ /\ l.type \in TransitionTypes         \* type.startsWith('transition')
          /\ IsTransitionEvent(event)
          /\ event.name # l.name

\* `listener` of attachDelegate as it would be if it handed the handler the
\* native target of the event.
Listener_native_target(w, l, event) ==
    LET resolved == Resolved(l, event) IN
    IF resolved = Undefined THEN [w |-> w, ret |-> Undefined]
    ELSE IF ~Contains(l.scope, resolved) THEN [w |-> w, ret |-> Undefined]
    ELSE IF SkippedByName(l, event) THEN [w |-> w, ret |-> Undefined]
    ELSE [w |-> RunHandler(w, l, event.target).w, ret |-> Undefined]

\* `listener` of attachDelegate as it would be without the name filter.
Listener_any_name(w, l, event) ==
    LET resolved == Resolved(l, event) IN
    IF resolved = Undefined THEN [w |-> w, ret |-> Undefined]
    ELSE IF ~Contains(l.scope, resolved) THEN [w |-> w, ret |-> Undefined]
    ELSE [w |-> RunHandler(w, l, resolved).w, ret |-> Undefined]

\* `listener` of attachDelegate
Listener(w, l, event) ==
    LET resolved == Resolved(l, event) IN
    IF resolved = Undefined THEN [w |-> w, ret |-> Undefined]
    ELSE IF ~Contains(l.scope, resolved) THEN [w |-> w, ret |-> Undefined]
    ELSE IF SkippedByName(l, event) THEN [w |-> w, ret |-> Undefined]
    ELSE [w |-> RunHandler(w, l, resolved).w, ret |-> Undefined]

RECURSIVE Flatten(_)
Flatten(ss) == IF ss = <<>> THEN <<>> ELSE Head(ss) \o Flatten(Tail(ss))

\* The listeners an event reaches, in the order the browser calls them: the
\* capturing ones of the target's ancestors from the root down, those of the
\* target, the others of the ancestors from the target up.  (All event
\* types used bubble.)
Heard(lst, event) ==
    LET chain == Chain(event.target)
        n == Len(chain)
        On(node, capture) ==
            SelectSeq(lst, LAMBDA l : /\ l.attached /\ l.scope = node
                                      /\ l.type = event.type
                                      /\ l.capture = capture)
        AtTarget ==
            SelectSeq(lst, LAMBDA l : /\ l.attached /\ l.scope = event.target
                                      /\ l.type = event.type)
    IN Flatten([i \in 1..(n - 1) |-> On(chain[n + 1 - i], TRUE)])
       \o AtTarget
       \o Flatten([i \in 1..(n - 1) |-> On(chain[i + 1], FALSE)])

\* The browser calls the listeners ls one after the other; an exception
\* that leaves a listener is reported and the next listener is called.
RECURSIVE Deliver(_, _, _, _)
Deliver(w, ls, event, ret) ==
    IF ls = <<>> THEN [w |-> w, ret |-> ret]
    ELSE LET l == Head(ls)
             r == IF l.via = "attach" THEN Wrapped(w, l, event)
                                      ELSE Listener(w, l, event)
         IN Deliver(r.w, Tail(ls), event, IF r.ret = Threw THEN Threw ELSE ret)

\* target.dispatchEvent(event), by the browser or by a script
Dispatch(w, event) == Deliver(w, Heard(w.lst, event), event, Undefined)

\* The transition lifecycle helper: its aliases in the order it pushes them
\* and the native event each stands for.
Phases == <<"start", "end", "run", "cancel">>
Native(phase) ==
    CASE phase = "start" -> "transitionstart"
      [] phase = "end" -> "transitionend"
      [] phase = "run" -> "transitionrun"
      [] phase = "cancel" -> "transitioncancel"

\* onTransitionStart, onTransitionEnd, onTransitionRun, onTransitionCancel:
\* attachDelegate of a context of their own.
onTransitionPhase(w, phase, callback, scope, options) ==
    attachDelegate(w, scope, Native(phase), callback, options)

\* if (handlers.<phase>) push('<phase>', onTransition<Phase>(...)), for the
\* phases from the i-th on.
RECURSIVE onTransitionFrom(_, _, _, _, _, _)
\* onTransition as it would be if it pushed every remover under one alias.
onTransitionFrom_one_alias(w, c, i, handlers, scope, options) ==
    IF i > Len(Phases) THEN w
    ELSE LET phase == Phases[i] IN
         IF handlers[phase] = Undefined
         THEN onTransitionFrom(w, c, i + 1, handlers, scope, options)
         ELSE LET a == onTransitionPhase(w, phase, handlers[phase], scope, options)
              IN onTransitionFrom(push(a.w, c, "start", a.ret, {}).w,
                                  c, i + 1, handlers, scope, options)

onTransitionFrom(w, c, i, handlers, scope, options) ==
    IF i > Len(Phases) THEN w
    ELSE LET phase == Phases[i] IN
         IF handlers[phase] = Undefined
         THEN onTransitionFrom(w, c, i + 1, handlers, scope, options)
         ELSE LET a == onTransitionPhase(w, phase, handlers[phase], scope, options)
              IN onTransitionFrom(push(a.w, c, phase, a.ret, {}).w,
                                  c, i + 1, handlers, scope, options)

\* onTransition(handlers, scope, options): c is the context it creates, and
\* the result is that context's teardown.
onTransition(w, c, handlers, scope, options) ==
    [w |-> onTransitionFrom(w, c, 1, handlers, scope, options), ret |-> c]

(***************************************************************************)
(* The state machine: one action per public method.                        *)
(***************************************************************************)
Quiet == [warn |-> 0, error |-> 0]

World == [reg |-> _instances, con |-> Quiet, tr |-> <<>>]

NoCall ==
    [op |-> "constructor", component |-> Undefined, id |-> Undefined,
     identifier |-> Undefined, instance |-> Undefined, override |-> FALSE,
     ret |-> Undefined, obj |-> [x \in {} |-> x], calls |-> <<>>,
     pre |-> [x \in {} |-> x], logged |-> Quiet]

\* new Container(): this._instances = {}
\* No event: the fields of an event are its type, its target and its
\* propertyName or animationName.
NoEvent == [type |-> Undefined, target |-> Undefined, name |-> Undefined]

NoHandlers == [phase \in {"start", "end", "run", "cancel"} |-> Undefined]
NoTeardownCall ==
    [op |-> "useTeardown", context |-> Undefined, alias |-> Undefined,
     callback |-> Undefined, ret |-> Undefined, inv |-> <<>>,
     pushed |-> <<>>, pre |-> [c \in Contexts |-> <<>>], follows |-> FALSE,
     listener |-> Undefined, event |-> NoEvent, fired |-> <<>>,
     attached |-> <<>>, handlers |-> NoHandlers]

\* new Container(): this._instances = {}; each useTeardown(): new Map()
Init ==
    /\ _instances = [k \in {} |-> k]
    /\ last = NoCall
    /\ registered = [k \in Kinds |-> 0]
    /\ registry = [c \in Contexts |-> <<>>]
    /\ listeners = <<>>
    /\ tlast = NoTeardownCall

\* The call `what` ran from the current state with result r.
Done(what, r) ==
    /\ _instances' = r.w.reg
    /\ last' = [NoCall EXCEPT
                   !.op = what.op, !.component = what.component, !.id = what.id,
                   !.identifier = what.identifier, !.instance = what.instance,
                   !.override = what.override,
                   !.ret = r.ret, !.calls = r.w.tr,
                   !.obj = IF "obj" \in DOMAIN r THEN r.obj ELSE @,
                   !.pre = _instances, !.logged = r.w.con]
    /\ registered' = IF what.op = "register" /\ r.ret = "true"
                     THEN [registered EXCEPT ![what.component] = @ + 1]
                     ELSE registered
    /\ UNCHANGED <<registry, listeners, tlast>>

What(op, component, id) ==
    [op |-> op, component |-> component, id |-> id, identifier |-> id,
     instance |-> Undefined, override |-> FALSE]

\* The implementations worth telling apart for a call on (component, id):
\* all of them when an instance is stored there, one when none is invoked.
ImplsAt(component, id) ==
    IF HasComponent(_instances, component) /\ HasInstance(_instances, component, id)
    THEN Impls ELSE {"mock"}

CallRegister ==
    \E c \in Kinds :
        Done(What("register", c, Undefined), register(World, c))

\* override omitted is override = false; Utility.generate is called only
\* when id is falsy.
CallAdd ==
    \E c \in Kinds, i \in Insts, id \in Ids \cup {Undefined}, o \in BOOLEAN :
        \E gen \in (IF Truthy(id) THEN {id} ELSE GenIds) :
            \E impl \in (IF o THEN ImplsAt(c, Identifier(id, gen)) ELSE {"mock"}) :
                Done([What("add", c, id) EXCEPT
                         !.identifier = Identifier(id, gen),
                         !.instance = i, !.override = o],
                     add(World, c, i, id, o, gen, impl))

CallGet ==
    \E c \in Kinds, id \in Ids :
        Done(What("get", c, id), get(World, c, id))

CallGetMany ==
    \E c \in Kinds :
        Done(What("getMany", c, Undefined), getMany(World, c))

CallSet ==
    \E c \in Kinds, i \in Insts, id \in Ids :
        Done([What("set", c, id) EXCEPT !.instance = i], set(World, c, i, id))

CallHas ==
    \E c \in Kinds, id \in Ids :
        Done(What("has", c, id), has(World, c, id))

CallRemove ==
    \E c \in Kinds, id \in Ids :
        Done(What("remove", c, id), remove(World, c, id))

CallDestroy ==
    \E c \in Kinds, id \in Ids :
        \E impl \in ImplsAt(c, id) :
            Done(What("destroy", c, id), destroy(World, c, id, impl))

CallDestroyAndRemove ==
    \E c \in Kinds, id \in Ids :
        \E impl \in ImplsAt(c, id) :
            Done(What("destroyAndRemove", c, id),
                 destroyAndRemove(World, c, id, impl))

\* new Component(...) of kind c by the code that owns element `el`.  last.id
\* is the _id the new instance ends up with, last.identifier the key add used.
CallNewComponent ==
    \E c \in Kinds, i \in Insts, id \in Ids \cup {Undefined}, el \in Ids, o \in BOOLEAN :
        LET _id == ComponentId(id, el) IN
        \E gen \in (IF Truthy(_id) THEN {_id} ELSE GenIds) :
            \E impl \in (IF o THEN ImplsAt(c, Identifier(_id, gen)) ELSE {"mock"}) :
                Done([What("new Component", c, _id) EXCEPT
                         !.identifier = Identifier(_id, gen),
                         !.instance = i, !.override = o],
                     NewComponent(World, c, i, id, el, o, gen, impl))

\* inst.destroyAndRemove() called directly on a stored instance that is a
\* Component subclass inheriting the default destroyAndRemove.
CallComponentDestroyAndRemove ==
    \E c \in Kinds, id \in Ids :
        /\ HasComponent(_instances, c) /\ HasInstance(_instances, c, id)
        /\ \E impl \in Impls \ {"mock"} :
               Done([What("Component.destroyAndRemove", c, id) EXCEPT
                        !.instance = _instances[c][id]],
                    ComponentDestroyAndRemove(World, _instances[c][id], impl, c, id))

Next ==
    \/ CallRegister
    \/ CallAdd
    \/ CallGet
    \/ CallGetMany
    \/ CallSet
    \/ CallHas
    \/ CallRemove
    \/ CallDestroy
    \/ CallDestroyAndRemove

Spec == Init /\ [][Next]_vars

\* The registry as components use it: kinds are registered, components are
\* constructed and leave through the registry's remove or through their own
\* destroyAndRemove.
NextComponent ==
    \/ CallRegister
    \/ CallRemove
    \/ CallNewComponent
    \/ CallComponentDestroyAndRemove

SpecComponent == Init /\ [][NextComponent]_vars

(***************************************************************************)
(* The teardown contexts: one action per call of push and of teardown.     *)
(***************************************************************************)
TeardownWorld ==
    [reg |-> registry, inv |-> <<>>, pushed |-> <<>>, lst |-> listeners,
     fired |-> <<>>]

\* The call `what` on a teardown context ran from the current state with
\* result r.  tlast.follows tells that the call before it was a teardown of
\* the whole registry of the same context, tlast.attached what the listeners
\* were before the call.
TeardownDone(what, r) ==
    /\ registry' = [c \in Contexts |-> Entries(r.w.reg[c])]
    /\ listeners' = r.w.lst
    /\ tlast' = [NoTeardownCall EXCEPT
                    !.op = what.op, !.context = what.context,
                    !.alias = what.alias, !.callback = what.callback,
                    !.ret = r.ret, !.inv = r.w.inv, !.pushed = r.w.pushed,
                    !.pre = registry, !.attached = listeners,
                    !.fired = r.w.fired,
                    !.listener = IF "listener" \in DOMAIN what
                                 THEN what.listener ELSE @,
                    !.event = IF "event" \in DOMAIN what THEN what.event ELSE @,
                    !.handlers = IF "handlers" \in DOMAIN what
                                 THEN what.handlers ELSE @,
                    !.follows = /\ tlast.op = "teardown"
                                /\ tlast.context = what.context
                                /\ ~Truthy(tlast.alias)]
    /\ UNCHANGED <<_instances, last, registered>>

\* push(alias, callback) with a callback out of F
Push(F) ==
    \E c \in Contexts, alias \in Aliases, callback \in F :
        TeardownDone([op |-> "push", context |-> c, alias |-> alias,
                      callback |-> callback],
                     push(TeardownWorld, c, alias, callback, {}))

CallPush == Push(Removers)

\* teardown(alias) with an alias out of A, and teardown() if Undefined is
\* in A
Teardown(A) ==
    \E c \in Contexts, alias \in A :
        TeardownDone([op |-> "teardown", context |-> c, alias |-> alias,
                      callback |-> Undefined],
                     teardown(TeardownWorld, c, alias, {}))

CallTeardown == Teardown(Aliases \cup {Undefined})

NextTeardown ==
    \/ CallPush
    \/ CallTeardown

SpecTeardown == Init /\ [][NextTeardown]_vars

\* The same with callbacks that call back into the context that runs them.
CallPushReentrant == Push(Callbacks)

NextReentrant ==
    \/ CallPushReentrant
    \/ CallTeardown

SpecReentrant == Init /\ [][NextReentrant]_vars

(***************************************************************************)
(* The listeners: one action per call of attach, of attachDelegate and of  *)
(* a remover, and one per event dispatched in the document.                *)
(***************************************************************************)
\* A call that is not push or teardown.
DomCall(op, c) ==
    [op |-> op, context |-> c, alias |-> Undefined, callback |-> Undefined]

\* The next wrapped function is one out of P.
NextListenerIn(P) ==
    /\ Len(listeners) < Len(ListenerPool)
    /\ ListenerPool[Len(listeners) + 1] \in P

\* attach(scope, type, handler, { capture }) with arguments out of S, T, H
Attach(S, T, H, P) ==
    /\ NextListenerIn(P)
    /\ \E c \in Contexts, scope \in S, type \in T, handler \in H,
          capture \in BOOLEAN :
           LET r == attach(TeardownWorld, scope, type, handler,
                           [capture |-> capture])
           IN TeardownDone([DomCall("attach", c) EXCEPT !.callback = r.ret]
                               @@ [listener |-> r.ret], r)

\* attachDelegate(scope, type, handler, { delegate, name, capture }) with
\* arguments out of S, T, H, D, N, C
AttachDelegate(S, T, H, D, N, C, P) ==
    /\ NextListenerIn(P)
    /\ \E c \in Contexts, scope \in S, type \in T, handler \in H,
          delegate \in D, name \in N, capture \in C :
           LET r == attachDelegate(TeardownWorld, scope, type, handler,
                                   [delegate |-> delegate, name |-> name,
                                    capture |-> capture])
           IN TeardownDone([DomCall("attachDelegate", c) EXCEPT !.callback = r.ret]
                               @@ [listener |-> r.ret], r)

\* The caller runs a remover it was handed, be it for the first time or again.
CallRemover ==
    \E i \in DOMAIN listeners :
        TeardownDone(DomCall("remover", Undefined) @@ [listener |-> listeners[i].id],
                     [w |-> [TeardownWorld EXCEPT
                                !.lst = Remover(@, listeners[i].id)],
                      ret |-> Undefined])

\* An event of a type out of T happens at a node out of X; it carries a
\* propertyName or animationName out of Names if its type has one.
DispatchEvent(T, X) ==
    \E type \in T, target \in X :
        \E name \in (IF type \in TransitionTypes \cup AnimationTypes
                                   \cup LegacyTransitionTypes
                     THEN Names ELSE {Undefined}) :
            LET event == [type |-> type, target |-> target, name |-> name] IN
            TeardownDone(DomCall("dispatch", Undefined) @@ [event |-> event],
                         Dispatch(TeardownWorld, event))

\* A widget attaches click listeners on its list element through its
\* context t1, may hand a remover (or another callback) to push('a', ...),
\* and tears down; clicks happen in the document.
CallAttach == Attach({"list"}, {"click"}, {"h1", "hbad"}, {"l1", "l2"})

CallAttachDelegate ==
    AttachDelegate({"list"}, {"click"}, {"h1", "hbad"}, {Undefined},
                   {Undefined}, BOOLEAN, {"l1", "l2"})

CallPushRemover ==
    \E callback \in {"cb1"} \cup {listeners[i].id : i \in DOMAIN listeners} :
        TeardownDone([op |-> "push", context |-> "t1", alias |-> "a",
                      callback |-> callback],
                     push(TeardownWorld, "t1", "a", callback, {}))

CallTeardownAll == Teardown({Undefined})

CallClick == DispatchEvent({"click"}, {"leaf", "list", "body"})

NextListeners ==
    \/ CallAttach
    \/ CallAttachDelegate
    \/ CallRemover
    \/ CallPushRemover
    \/ CallTeardownAll
    \/ CallClick

SpecListeners == Init /\ [][NextListeners]_vars

\* One delegated listener on the list element, with every combination of
\* delegate selector and name filter, and events of every kind at every
\* node.
CallAttachDelegateFiltered ==
    AttachDelegate({"list"},
                   {"transitionend", "animationend", "webkitTransitionEnd",
                    "click"},
                   {"h1"}, Selectors \cup {Undefined},
                   {"opacity", Undefined}, {FALSE}, {"l1"})

CallEvent ==
    DispatchEvent({"transitionend", "animationend", "webkitTransitionEnd",
                   "click"}, Nodes)

NextDelegate ==
    \/ CallAttachDelegateFiltered
    \/ CallEvent

SpecDelegate == Init /\ [][NextDelegate]_vars

\* A widget calls onTransition(handlers, scope, options) once on its list
\* element, with any combination of the four handlers; t1 is the context
\* that the call creates.
CallOnTransition ==
    \E c \in {"t1"}, delegate \in {Undefined, ".item"} :
        \E handlers \in [{"start", "end", "run", "cancel"} -> {Undefined, "h1"}] :
            /\ tlast.op = "useTeardown"
            /\ TeardownDone(DomCall("onTransition", c)
                                @@ [handlers |-> handlers],
                            onTransition(TeardownWorld, c, handlers, "list",
                                         [delegate |-> delegate, name |-> Undefined,
                                          capture |-> FALSE]))

\* The teardown that onTransition returned, called with a phase or with none.
CallTransitionTeardown ==
    Teardown({"start", "end", "run", "cancel", Undefined})

CallTransitionEvent == DispatchEvent(TransitionTypes, {"item"})

NextTransition ==
    \/ CallOnTransition
    \/ CallTransitionTeardown
    \/ CallTransitionEvent

SpecTransition == Init /\ [][NextTransition]_vars

(***************************************************************************)
(* Vocabulary of the properties.                                           *)
(***************************************************************************)
\* An instance is stored at (component, id) in registry reg.
Stored(reg, component, id) ==
    component \in DOMAIN reg /\ id \in DOMAIN reg[component]

\* What the public queries answer in the current state.
Has(component, id) == has(World, component, id).ret = "true"
Get(component, id) == get(World, component, id).ret

Lifecycle == {"destroy", "remove", "destroyAndRemove"}

\* The positions of the last call's trace at which event ev happened.
At(ev) == {p \in DOMAIN last.calls : last.calls[p] = ev}

\* The last call invoked no lifecycle method of any instance.
NoInvocation == \A p \in DOMAIN last.calls : last.calls[p][2] \notin Lifecycle

\* The last call was add with override on an occupied (component, identifier).
OverrideAddOnStored ==
    /\ last.op = "add"
    /\ last.override
    /\ Stored(last.pre, last.component, last.identifier)

\* The last call was add without override on an occupied (component, identifier).
PlainAddOnStored ==
    /\ last.op = "add"
    /\ ~last.override
    /\ Stored(last.pre, last.component, last.identifier)

(***************************************************************************)
(* C1: add(kind, inst2, id, true) while inst1 is stored at (kind, id)      *)
(* invokes inst1.destroyAndRemove exactly once and before inst2 is stored, *)
(* returns true, and get(kind, id) is inst2 afterwards.                    *)
(***************************************************************************)
C1_OverrideReplaces ==
    OverrideAddOnStored =>
        LET inst1 == last.pre[last.component][last.identifier]
            inst2 == last.instance
        IN /\ last.ret = "true"
           /\ Cardinality(At(<<inst1, "destroyAndRemove">>)) = 1
           /\ last.calls[Len(last.calls)] = <<inst2, "store">>
           /\ \A p \in At(<<inst1, "destroyAndRemove">>) : p < Len(last.calls)
           /\ Get(last.component, last.identifier) = inst2

(***************************************************************************)
(* C2: add(kind, inst2, id) without override on an occupied (kind, id)     *)
(* returns false, invokes no lifecycle method and leaves the stored        *)
(* instance where it is.                                                   *)
(***************************************************************************)
C2_DuplicateRejected ==
    PlainAddOnStored =>
        /\ last.ret = "false"
        /\ NoInvocation
        /\ Get(last.component, last.identifier)
               = last.pre[last.component][last.identifier]
        /\ _instances = last.pre

C2_Witness ==
    /\ PlainAddOnStored
    /\ last.id = last.identifier
    /\ last.instance # last.pre[last.component][last.identifier]

C5_AddThenGet_AnyId ==
    (last.op = "add" /\ last.id # Undefined /\ last.ret = "true") =>
        /\ Get(last.component, last.id) = last.instance
        /\ Has(last.component, last.id)

\* An entry of the registry before the last call that the call deleted or
\* replaced by another instance.
Displaced(component, id) ==
    /\ Stored(last.pre, component, id)
    /\ \/ ~Stored(_instances, component, id)
       \/ _instances[component][id] # last.pre[component][id]

\* The last call was a set, an add with override, a remove or a
\* destroyAndRemove on (component, id).
Retargets(component, id) ==
    /\ last.component = component
    /\ last.identifier = id
    /\ \/ last.op \in {"set", "remove", "destroyAndRemove"}
       \/ last.op = "add" /\ last.override

(***************************************************************************)
(* C5, amended: for every supplied non-empty id, add(kind, inst, id)       *)
(* returning true makes get(kind, id) return inst and has(kind, id) true,  *)
(* and a stored entry is deleted or replaced only by a set, an add with    *)
(* override, a remove or a destroyAndRemove on the same (kind, id).        *)
(***************************************************************************)
C5_AddThenGet ==
    /\ (last.op = "add" /\ Truthy(last.id) /\ last.ret = "true") =>
          /\ Get(last.component, last.id) = last.instance
          /\ Has(last.component, last.id)
    /\ \A c \in Kinds, id \in Ids : Displaced(c, id) => Retargets(c, id)

C5_Witness ==
    /\ last.op = "add"
    /\ Truthy(last.id)
    /\ last.ret = "true"
    /\ Get(last.component, last.id) = last.instance
    /\ \E id \in Ids \ {last.id} :
          /\ Stored(last.pre, last.component, id)
          /\ Get(last.component, id) = last.pre[last.component][id]
          /\ Get(last.component, id) # last.instance

C7_HasIsPure ==
    last.op = "has" =>
        /\ _instances = last.pre
        /\ last.logged = Quiet
        /\ last.calls = <<>>

C7_Witness ==
    /\ last.op = "has"
    /\ last.component \notin DOMAIN _instances
    /\ DOMAIN _instances # {}

C10_RemoveOnlyDeletes ==
    last.op = "remove" =>
        /\ NoInvocation
        /\ DOMAIN _instances = DOMAIN last.pre
        /\ \A c \in DOMAIN last.pre :
              /\ DOMAIN _instances[c] =
                     DOMAIN last.pre[c]
                        \ (IF c = last.component THEN {last.id} ELSE {})
              /\ \A id \in DOMAIN _instances[c] :
                     _instances[c][id] = last.pre[c][id]

C10_Witness ==
    /\ last.op = "remove"
    /\ last.ret = "true"
    /\ \E id \in Ids : Stored(_instances, last.component, id)
    /\ \E c \in Kinds, id \in Ids : c # last.component /\ Stored(_instances, c, id)

\* The last call was `op` on an occupied (component, id).
CallOnStored(op) ==
    /\ last.op = op
    /\ Stored(last.pre, last.component, last.id)

(***************************************************************************)
(* C11: destroy(kind, id) on an existing entry invokes the instance's      *)
(* destroy() exactly once, returns true and leaves the registry as it was: *)
(* has(kind, id) stays true and get(kind, id) is the same instance.        *)
(***************************************************************************)
C11_DestroyKeepsEntry ==
    CallOnStored("destroy") =>
        LET inst == last.pre[last.component][last.id] IN
        /\ last.ret = "true"
        /\ Cardinality(At(<<inst, "destroy">>)) = 1
        /\ _instances = last.pre
        /\ Has(last.component, last.id)
        /\ Get(last.component, last.id) = inst

(***************************************************************************)
(* C12: destroyAndRemove(kind, id) returns true for every kind and id; for *)
(* an unregistered kind and for an absent id the registry is unchanged.    *)
(***************************************************************************)
C12_DestroyAndRemoveAlwaysTrue ==
    last.op = "destroyAndRemove" =>
        /\ last.ret = "true"
        /\ ~Stored(last.pre, last.component, last.id) => _instances = last.pre

(***************************************************************************)
(* C13: destroyAndRemove(kind, id) on an existing entry invokes the        *)
(* instance's destroy() exactly once while the entry is still present,     *)
(* then deletes the entry, so that has(kind, id) is false afterwards; it   *)
(* invokes neither remove() nor destroyAndRemove() of the instance.        *)
(***************************************************************************)
C13_DestroyThenDelete ==
    CallOnStored("destroyAndRemove") =>
        LET inst == last.pre[last.component][last.id] IN
        /\ last.calls = <<(<<inst, "destroy">>), (<<inst, "delete">>)>>
        /\ ~Has(last.component, last.id)

(***************************************************************************)
(* C14: no failure escapes the registry: destroy, destroyAndRemove and add *)
(* with override return normally also when the stored instance's destroy() *)
(* or destroyAndRemove() throws.                                           *)
(***************************************************************************)
C14_NothingThrown ==
    last.op \in {"destroy", "destroyAndRemove", "add"} => last.ret # Threw

\* The failure the last call ran into, judged on the registry before it:
\* an unregistered kind, a missing instance, an occupied id, or none.
Failure ==
    IF last.op \notin {"add", "get", "getMany", "set", "remove", "destroy"}
    THEN "none"
    ELSE IF last.component \notin DOMAIN last.pre THEN "unknown-kind"
    ELSE IF /\ last.op \in {"get", "set", "remove", "destroy"}
            /\ ~Stored(last.pre, last.component, last.id)
    THEN "unknown-instance"
    ELSE IF PlainAddOnStored THEN "duplicate"
    ELSE "none"

C17_KindsPersist ==
    /\ DOMAIN last.pre \subseteq DOMAIN _instances
    /\ \A k \in Kinds :
          registered[k] >= 1 =>
              /\ k \in DOMAIN _instances
              /\ getMany(World, k).ret # "false"

C17_Witness ==
    /\ last.op = "remove"
    /\ last.ret = "true"
    /\ registered[last.component] = 1
    /\ DOMAIN _instances[last.component] = {}

\* Bookkeeping of a kind's pairs: mapping m with id bound to inst, and
\* mapping m without id.
Put(m, id, inst) == [x \in (DOMAIN m) \cup {id} |-> IF x = id THEN inst ELSE m[x]]
Drop(m, id) == [x \in (DOMAIN m) \ {id} |-> m[x]]

\* The pairs of kind k after the last call, by the bookkeeping: a successful
\* add or set on k binds its id to its instance, a successful remove or
\* destroyAndRemove on k drops its id, every other call changes nothing.
Expected(k) ==
    IF last.component = k /\ last.op \in {"add", "set"} /\ last.ret = "true"
    THEN Put(last.pre[k], last.identifier, last.instance)
    ELSE IF /\ last.component = k
            /\ last.op \in {"remove", "destroyAndRemove"}
            /\ last.ret = "true"
    THEN Drop(last.pre[k], last.id)
    ELSE last.pre[k]

C19_KindsAreSeparate ==
    last.op \in {"add", "set", "remove", "destroy", "destroyAndRemove"} =>
        /\ \A k \in Kinds \ {last.component} :
              /\ k \in DOMAIN _instances <=> k \in DOMAIN last.pre
              /\ k \in DOMAIN last.pre => _instances[k] = last.pre[k]
        /\ \A p \in DOMAIN last.calls :
              last.calls[p][2] \in Lifecycle =>
                  /\ Stored(last.pre, last.component, last.identifier)
                  /\ last.calls[p][1]
                        = last.pre[last.component][last.identifier]

C19_Witness ==
    /\ CallOnStored("destroyAndRemove")
    /\ last.ret = "true"
    /\ ~Has(last.component, last.id)
    /\ \E k \in Kinds \ {last.component} :
          /\ Has(k, last.id)
          /\ Get(k, last.id) # last.pre[last.component][last.id]
          /\ <<Get(k, last.id), "destroy">> \notin
                 {last.calls[p] : p \in DOMAIN last.calls}

(***************************************************************************)
(* C20: add(kind, inst) with the id omitted on a registered kind returns   *)
(* true, stores inst under a generated id as exactly one new entry and     *)
(* leaves every entry already stored under the kind unchanged.             *)
(***************************************************************************)
C20_GeneratedIdIsFresh ==
    (/\ last.op = "add"
     /\ last.id = Undefined
     /\ ~last.override
     /\ last.component \in DOMAIN last.pre) =>
        /\ last.ret = "true"
        /\ last.identifier \notin DOMAIN last.pre[last.component]
        /\ _instances[last.component]
              = Put(last.pre[last.component], last.identifier, last.instance)

(***************************************************************************)
(* C21: constructing a component whose id collides with an instance        *)
(* already registered under the same kind, with override false, fails: the *)
(* existing instance stays registered, the new one is not stored, and the  *)
(* failure is signalled to the code that constructed it (the `new`         *)
(* expression does not complete normally).                                 *)
(***************************************************************************)
C21_CollisionFailsConstruction ==
    (/\ last.op = "new Component"
     /\ ~last.override
     /\ Stored(last.pre, last.component, last.identifier)) =>
        /\ _instances = last.pre
        /\ last.ret = Threw

(***************************************************************************)
(* C22: after a component is constructed for a registered kind with no     *)
(* colliding id, get(kind, instance._id) returns that instance, whatever   *)
(* the supplied id and the element id are.                                 *)
(***************************************************************************)
C22_RegisteredUnderOwnId ==
    (/\ last.op = "new Component"
     /\ last.component \in DOMAIN last.pre
     /\ ~Stored(last.pre, last.component, last.identifier)) =>
        Get(last.component, last.id) = last.instance

(***************************************************************************)
(* C23: the default Component.destroyAndRemove() invokes destroy() exactly *)
(* once and then remove() exactly once, in that order, whatever destroy()  *)
(* returns or does.                                                        *)
(***************************************************************************)
C23_DestroyThenRemove ==
    last.op = "Component.destroyAndRemove" =>
        LET own == SelectSeq(last.calls,
                             LAMBDA ev : ev[1] = last.instance /\ ev[2] \in Lifecycle)
        IN own = <<(<<last.instance, "destroy">>), (<<last.instance, "remove">>)>>

(***************************************************************************)
(* Vocabulary of the properties of the teardown contexts.                  *)
(***************************************************************************)
\* The Map of the context of the last call, before the call and now.
Before == tlast.pre[tlast.context]
Now == registry[tlast.context]

\* Map.prototype.has
MapHas(m, key) == \E i \in DOMAIN m : m[i].key = key

\* How often the last call invoked the callback found under `key`.
Invocations(key, callback) ==
    Cardinality({p \in DOMAIN tlast.inv :
                    tlast.inv[p] = <<tlast.context, key, callback>>})

\* The last call was teardown() or teardown(alias) with an alias that is
\* treated as none.
FullTeardown == tlast.op = "teardown" /\ ~Truthy(tlast.alias)

(***************************************************************************)
(* C24: push(alias, cb2) over a registered cb1 invokes cb1 exactly once,   *)
(* during that push, and invokes nothing else; afterwards cb2 and no       *)
(* longer cb1 is registered under alias.  A teardown() or teardown(alias)  *)
(* that finds a callback under alias invokes it exactly once.              *)
(***************************************************************************)
C24_PushInvokesPrevious ==
    /\ (tlast.op = "push" /\ MapHas(Before, tlast.alias)) =>
           /\ tlast.inv = <<(<<tlast.context, tlast.alias,
                               MapGet(Before, tlast.alias)>>)>>
           /\ MapGet(Now, tlast.alias) = tlast.callback
    /\ (tlast.op = "push" /\ ~MapHas(Before, tlast.alias)) => tlast.inv = <<>>
    /\ \A alias \in Aliases :
           (/\ tlast.op = "teardown"
            /\ MapHas(Before, alias)
            /\ (FullTeardown \/ tlast.alias = alias)) =>
               Invocations(alias, MapGet(Before, alias)) = 1

C24_Witness ==
    /\ tlast.op = "push"
    /\ MapHas(Before, tlast.alias)
    /\ MapGet(Before, tlast.alias) = "cb1"
    /\ tlast.callback = "cb2"
    /\ tlast.inv = <<(<<tlast.context, tlast.alias, "cb1">>)>>

(***************************************************************************)
(* C25: teardown(alias) with an alias given, the empty string included,    *)
(* invokes and deletes only the callback stored under that alias: the      *)
(* callbacks under every other alias are not invoked and stay registered.  *)
(***************************************************************************)
C25_SelectiveTeardown ==
    (tlast.op = "teardown" /\ tlast.alias # Undefined) =>
        /\ \A p \in DOMAIN tlast.inv : tlast.inv[p][2] = tlast.alias
        /\ Now = SelectSeq(Before, LAMBDA e : e.key # tlast.alias)

(***************************************************************************)
(* C26: a full teardown() invokes every registered callback, also when     *)
(* some of them throw: the callbacks after a throwing one are invoked, the *)
(* exception does not reach the caller and the entry of the throwing       *)
(* callback is deleted as well.                                            *)
(***************************************************************************)
C26_ThrowingCallbackIsolated ==
    FullTeardown =>
        /\ tlast.ret # Threw
        /\ \A i \in DOMAIN Before : Invocations(Before[i].key, Before[i].value) = 1
        /\ Now = <<>>

C26_Witness ==
    /\ FullTeardown
    /\ Len(Before) = 2
    /\ Before[1].value = "bad"
    /\ Invocations(Before[2].key, Before[2].value) = 1
    /\ Now = <<>>

(***************************************************************************)
(* C27: a teardown() that directly follows a teardown() of the same        *)
(* context returns false and invokes no callback.                          *)
(***************************************************************************)
C27_SecondTeardownIsEmpty ==
    (FullTeardown /\ tlast.follows) =>
        /\ tlast.ret = "false"
        /\ tlast.inv = <<>>

C27_Witness ==
    /\ FullTeardown
    /\ tlast.alias = Undefined
    /\ tlast.follows
    /\ tlast.ret = "false"

(***************************************************************************)
(* C28: teardown(alias?) returns true exactly when it invoked at least one *)
(* callback: false when the registry is empty or the named alias is not    *)
(* registered, the registry then being unchanged, and true otherwise.      *)
(***************************************************************************)
C28_TrueIffRan ==
    tlast.op = "teardown" =>
        /\ tlast.ret = "true" <=> tlast.inv # <<>>
        /\ IF \/ Before = <<>>
              \/ (tlast.alias # Undefined /\ ~MapHas(Before, tlast.alias))
           THEN tlast.ret = "false" /\ Now = Before
           ELSE tlast.ret = "true"

(***************************************************************************)
(* C29: a full teardown() invokes the registered callbacks in the order in *)
(* which their aliases were registered: pushing an alias that is still     *)
(* registered keeps its position, pushing an alias that is not registered  *)
(* (never pushed, or torn down since) puts it at the end.                  *)
(***************************************************************************)
C29_RegistrationOrder ==
    /\ FullTeardown =>
           tlast.inv = [i \in DOMAIN Before |->
                           <<tlast.context, Before[i].key, Before[i].value>>]
    /\ (tlast.op = "push" /\ MapHas(Before, tlast.alias)) =>
           [i \in DOMAIN Now |-> Now[i].key] = [i \in DOMAIN Before |-> Before[i].key]
    /\ (tlast.op = "push" /\ ~MapHas(Before, tlast.alias)) =>
           Now = Append(Before, [key |-> tlast.alias, value |-> tlast.callback])

C29_Witness ==
    /\ FullTeardown
    /\ Len(Before) = 2
    /\ Before[1].key = "a"
    /\ tlast.inv = <<(<<tlast.context, "a", Before[1].value>>),
                     (<<tlast.context, "", Before[2].value>>)>>

(***************************************************************************)
(* C30: teardown contexts are isolated: push and teardown on one context   *)
(* invoke only callbacks registered in that context and leave the registry *)
(* of every other context as it was, also when both use the same alias.    *)
(***************************************************************************)
C30_ContextsIsolated ==
    tlast.op \in {"push", "teardown"} =>
        /\ \A c \in Contexts \ {tlast.context} : registry[c] = tlast.pre[c]
        /\ \A p \in DOMAIN tlast.inv :
               /\ tlast.inv[p][1] = tlast.context
               /\ MapGet(Before, tlast.inv[p][2]) = tlast.inv[p][3]

C30_Witness ==
    /\ tlast.op = "push"
    /\ tlast.inv # <<>>
    /\ \E c \in Contexts \ {tlast.context} :
           /\ MapHas(registry[c], tlast.alias)
           /\ MapGet(registry[c], tlast.alias) # tlast.callback
           /\ MapGet(registry[c], tlast.alias) # MapGet(Before, tlast.alias)

(***************************************************************************)
(* C40: set(kind, inst2, id) replaces the stored instance without invoking *)
(* destroy, remove or destroyAndRemove on the displaced instance or on     *)
(* inst2, unlike add with override, which invokes the displaced instance's *)
(* destroyAndRemove.                                                       *)
(***************************************************************************)
C40_SetInvokesNothing ==
    /\ last.op = "set" => NoInvocation
    /\ CallOnStored("set") =>
           last.calls = <<(<<last.instance, "store">>)>>
    /\ OverrideAddOnStored =>
           Cardinality(At(<<last.pre[last.component][last.identifier],
                            "destroyAndRemove">>)) = 1

C40_Witness ==
    /\ CallOnStored("set")
    /\ last.pre[last.component][last.id] # last.instance
    /\ _instances[last.component][last.id] = last.instance
    /\ last.calls = <<(<<last.instance, "store">>)>>

\* How often `callback` is stored under `key` in Map m (0 or 1).
Holds(m, key, callback) ==
    Cardinality({i \in DOMAIN m : m[i] = [key |-> key, value |-> callback]})

\* How often the last call registered `callback` under `key`.
Pushes(key, callback) ==
    Cardinality({p \in DOMAIN tlast.pushed :
                    tlast.pushed[p] = <<tlast.context, key, callback>>})

(***************************************************************************)
(* C36: in every sequence of push and teardown calls on one context, the   *)
(* calls made from inside a running callback included, a callback leaves   *)
(* the registry only by being invoked: per call, each callback that was    *)
(* registered (before the call or by a push during it) and is no longer    *)
(* registered has been invoked exactly once, and none that is still        *)
(* registered has been invoked.                                            *)
(***************************************************************************)
C36_LeavesOnlyByInvocation ==
    tlast.op \in {"push", "teardown"} =>
        \A key \in Aliases, callback \in Callbacks :
            Invocations(key, callback) + Holds(Now, key, callback)
                = Holds(Before, key, callback) + Pushes(key, callback)

(***************************************************************************)
(* C37: whenever a full teardown() returns, the registry of the context is *)
(* empty: a callback pushed under a new alias by a callback running inside *)
(* that teardown() is invoked and deleted by the same call.                *)
(***************************************************************************)
C37_FullTeardownEmpties ==
    FullTeardown =>
        /\ Now = <<>>
        /\ \A p \in DOMAIN tlast.pushed :
               ~MapHas(Before, tlast.pushed[p][2]) =>
                   Invocations(tlast.pushed[p][2], tlast.pushed[p][3]) >= 1

C37_Witness ==
    /\ FullTeardown
    /\ Before = <<[key |-> "", value |-> "again"]>>
    /\ tlast.pushed = <<(<<tlast.context, "a", "cb2">>)>>
    /\ tlast.inv = <<(<<tlast.context, "", "again">>), (<<tlast.context, "a", "cb2">>)>>
    /\ Now = <<>>

(***************************************************************************)
(* C38: push(alias, cb2) over a registered cb1 that throws when invoked    *)
(* still registers cb2 under alias and returns normally; a later           *)
(* teardown(alias) invokes, of the callbacks of that alias, the one that   *)
(* is registered (cb2) and no other (not cb1).                             *)
(***************************************************************************)
C38_ThrowingPreviousReplaced ==
    /\ (tlast.op = "push" /\ MapGet(Before, tlast.alias) = "bad") =>
           /\ tlast.ret # Threw
           /\ tlast.inv = <<(<<tlast.context, tlast.alias, "bad">>)>>
           /\ MapGet(Now, tlast.alias) = tlast.callback
    /\ (tlast.op = "teardown" /\ tlast.alias # Undefined
                              /\ MapHas(Before, tlast.alias)) =>
           SelectSeq(tlast.inv, LAMBDA ev : ev[2] = tlast.alias)
               = <<(<<tlast.context, tlast.alias, MapGet(Before, tlast.alias)>>)>>

C38_Witness ==
    /\ tlast.op = "push"
    /\ MapGet(Before, tlast.alias) = "bad"
    /\ tlast.callback = "cb2"
    /\ MapGet(Now, tlast.alias) = "cb2"
    /\ tlast.ret = Undefined

(***************************************************************************)
(* Vocabulary of the properties of the listeners.                          *)
(***************************************************************************)
\* The listeners that were attached when the last call began and that its
\* event reaches: those of its type on the target or on an ancestor of it.
Reached ==
    {i \in DOMAIN tlast.attached :
        /\ tlast.attached[i].attached
        /\ tlast.attached[i].type = tlast.event.type
        /\ Contains(tlast.attached[i].scope, tlast.event.target)}

\* The wrapped functions whose handler the last call ran.
FiredIds == {tlast.fired[p][1] : p \in DOMAIN tlast.fired}

\* Listener function `id` is in its target's listener list.
IsAttached(id) ==
    \E i \in DOMAIN listeners : listeners[i].id = id /\ listeners[i].attached

(***************************************************************************)
(* C31: a handler attached with attach or attachDelegate that throws       *)
(* during an event does not propagate the exception to the dispatcher and  *)
(* stays attached: every event runs the handlers of all the listeners it   *)
(* reaches, throwing or not, and detaches none.  The returned remover      *)
(* detaches it all the same: once it has run, the listener is not attached *)
(* and events run only attached listeners.                                 *)
(***************************************************************************)
C31_ThrowingHandlerContained ==
    /\ tlast.op = "dispatch" =>
           /\ tlast.ret # Threw
           /\ listeners = tlast.attached
           /\ FiredIds = {tlast.attached[i].id : i \in Reached}
    /\ tlast.op = "remover" => ~IsAttached(tlast.listener)

C31_Witness ==
    /\ tlast.op = "dispatch"
    /\ tlast.ret = Undefined
    /\ \E p \in DOMAIN tlast.fired :
           /\ tlast.fired[p][2] = "hbad"
           /\ IsAttached(tlast.fired[p][1])
    /\ \E i \in DOMAIN listeners :
           ~listeners[i].attached /\ listeners[i].handler = "hbad"

(***************************************************************************)
(* C32: the remover returned by attach or attachDelegate detaches exactly  *)
(* the listener of that call: every other listener, one with the same      *)
(* handler on the same scope and event type included, stays attached and   *)
(* is still run by the events that reach it, the detached one is not run   *)
(* again, and running the remover again changes nothing.                   *)
(***************************************************************************)
C32_RemoverDetachesItsListener ==
    /\ tlast.op = "remover" =>
           /\ DOMAIN listeners = DOMAIN tlast.attached
           /\ \A i \in DOMAIN listeners :
                  listeners[i] =
                      IF tlast.attached[i].id = tlast.listener
                      THEN [tlast.attached[i] EXCEPT !.attached = FALSE]
                      ELSE tlast.attached[i]
    /\ tlast.op = "dispatch" =>
           \A i \in DOMAIN tlast.attached :
               (tlast.attached[i].id \in FiredIds) <=> (i \in Reached)

C32_Witness ==
    /\ tlast.op = "remover"
    /\ \E i, j \in DOMAIN listeners :
           /\ listeners[i].id = tlast.listener
           /\ tlast.attached[i].attached
           /\ ~listeners[i].attached
           /\ j # i
           /\ listeners[j].attached
           /\ listeners[j].handler = listeners[i].handler
           /\ listeners[j].scope = listeners[i].scope
           /\ listeners[j].type = listeners[i].type
           /\ listeners[j].via = listeners[i].via
           /\ listeners[j].capture = listeners[i].capture

(***************************************************************************)
(* C39: attach and attachDelegate leave the alias registry of the context  *)
(* unchanged: a listener whose remover was not passed to push is not       *)
(* detached by teardown(), and teardown() on a context that only attached  *)
(* listeners returns false.                                                *)
(***************************************************************************)
C39_AttachRegistersNothing ==
    /\ tlast.op \in {"attach", "attachDelegate"} => registry = tlast.pre
    /\ tlast.op = "teardown" =>
           /\ \A i \in DOMAIN tlast.attached :
                  (/\ tlast.attached[i].attached
                   /\ \A k \in DOMAIN Before :
                          Before[k].value # tlast.attached[i].id)
                      => listeners[i] = tlast.attached[i]
           /\ Before = <<>> => (tlast.ret = "false" /\ listeners = tlast.attached)

C39_Witness ==
    /\ FullTeardown
    /\ tlast.ret = "true"
    /\ \E i, j \in DOMAIN listeners :
           /\ tlast.attached[i].attached /\ ~listeners[i].attached
           /\ tlast.attached[j].attached /\ listeners[j].attached

(***************************************************************************)
(* C33: with attachDelegate(scope, type, handler, {delegate}) the handler  *)
(* is invoked for an event only if the native target or one of its         *)
(* ancestors matches the selector and the nearest such match lies inside   *)
(* scope, and it then receives that nearest match, not the native target.  *)
(***************************************************************************)
C33_DelegateResolvesNearestMatch ==
    tlast.op = "dispatch" =>
        \A p \in DOMAIN tlast.fired :
            \A i \in DOMAIN tlast.attached :
                (/\ tlast.attached[i].id = tlast.fired[p][1]
                 /\ tlast.attached[i].via = "attachDelegate"
                 /\ Truthy(tlast.attached[i].delegate))
                    => LET nearest == Closest(tlast.event.target,
                                              tlast.attached[i].delegate)
                       IN /\ nearest # Undefined
                          /\ Contains(tlast.attached[i].scope, nearest)
                          /\ tlast.fired[p][3] = nearest

C33_Witness ==
    /\ tlast.op = "dispatch"
    /\ \E p \in DOMAIN tlast.fired :
           /\ tlast.fired[p][3] # tlast.event.target
           /\ Truthy(ListenerOf(tlast.attached, tlast.fired[p][1]).delegate)

(***************************************************************************)
(* C34: with attachDelegate and options.name set, a transition event       *)
(* invokes the handler only when its propertyName equals options.name and  *)
(* an animation event only when its animationName equals options.name;     *)
(* events of any other type are not filtered by name: they invoke the      *)
(* handler whenever the target resolves inside scope.                      *)
(***************************************************************************)
C34_NameFiltersTransitionAndAnimation ==
    tlast.op = "dispatch" =>
        \A i \in Reached :
            LET l == tlast.attached[i]
                resolved == Resolved(l, tlast.event)
            IN (l.via = "attachDelegate" /\ Truthy(l.name)) =>
                   IF IsTransitionEvent(tlast.event)
                         \/ IsAnimationEvent(tlast.event)
                   THEN l.id \in FiredIds => tlast.event.name = l.name
                   ELSE (resolved # Undefined /\ Contains(l.scope, resolved))
                            => l.id \in FiredIds

\* The same for the listeners of the event types that begin with
\* "transition" or "animation".
C34_NameFiltersMatchingTypes ==
    tlast.op = "dispatch" =>
        \A i \in Reached :
            LET l == tlast.attached[i]
                resolved == Resolved(l, tlast.event)
            IN (/\ l.via = "attachDelegate"
                /\ Truthy(l.name)
                /\ l.type \notin LegacyTransitionTypes) =>
                   IF IsTransitionEvent(tlast.event)
                         \/ IsAnimationEvent(tlast.event)
                   THEN l.id \in FiredIds => tlast.event.name = l.name
                   ELSE (resolved # Undefined /\ Contains(l.scope, resolved))
                            => l.id \in FiredIds

\* The four phases of onTransition.
PhaseNames == {Phases[i] : i \in DOMAIN Phases}

\* The positions of the listeners of a phase in a listener list.
PhaseListeners(lst, phase) ==
    {i \in DOMAIN lst : lst[i].type = Native(phase)}

(***************************************************************************)
(* C35: onTransition(handlers, scope) attaches one listener for each       *)
(* phase whose handler was supplied and none for the others.  The teardown *)
(* it returns, called with a phase alias (start, run, end or cancel),      *)
(* detaches only the listener of that phase and leaves the others          *)
(* attached; called with no alias it detaches the listeners of all the     *)
(* supplied phases; for a phase that was not supplied it returns false.    *)
(***************************************************************************)
C35_TransitionTeardownByPhase ==
    /\ tlast.op = "onTransition" =>
           \A phase \in PhaseNames :
               IF tlast.handlers[phase] = Undefined
               THEN PhaseListeners(listeners, phase) = {}
               ELSE \E i \in DOMAIN listeners :
                        /\ PhaseListeners(listeners, phase) = {i}
                        /\ listeners[i].attached
                        /\ listeners[i].handler = tlast.handlers[phase]
    /\ (tlast.op = "teardown" /\ tlast.context = "t1") =>
           /\ DOMAIN listeners = DOMAIN tlast.attached
           /\ tlast.alias \in PhaseNames =>
                  /\ \A i \in DOMAIN listeners :
                         listeners[i] =
                             IF i \in PhaseListeners(tlast.attached, tlast.alias)
                             THEN [tlast.attached[i] EXCEPT !.attached = FALSE]
                             ELSE tlast.attached[i]
                  /\ PhaseListeners(tlast.attached, tlast.alias) = {}
                         => tlast.ret = "false"
           /\ tlast.alias = Undefined =>
                  \A i \in DOMAIN listeners :
                      listeners[i] = [tlast.attached[i] EXCEPT !.attached = FALSE]

C35_Witness ==
    /\ tlast.op = "teardown"
    /\ tlast.context = "t1"
    /\ tlast.alias = "end"
    /\ tlast.ret = "true"
    /\ \E i, j \in DOMAIN listeners :
           /\ listeners[i].type = "transitionend"
           /\ tlast.attached[i].attached
           /\ ~listeners[i].attached
           /\ listeners[j].type = "transitionrun"
           /\ listeners[j].attached
    /\ PhaseListeners(listeners, "cancel") = {}

====
